---- MODULE Spec2Model ----
(***************************************************************************)
(* Session facade of the gopherlua debugger: the process-wide guard        *)
(* openConn, Connect / TcpConnect / WaiteIDE on the interpreter thread,    *)
(* the cancellation watcher, the receive thread's handlers and Close.      *)
(* One interpreter handle L per facade (Preload creates one facade per L); *)
(* the handle of facade f is written f.                                    *)
(***************************************************************************)
EXTENDS Integers, Sequences, FiniteSets, TLC

\* ---------------------------------------------------------------- bounds
NumFacades == 2
MaxConnects == 3
NumCtx == 1

Facades == 1..NumFacades
Calls == 1..MaxConnects
Ctxs == 1..NumCtx
\* L.Context() == nil
NilCtx == 0

VARIABLES
    openConn,         \* var openConn int32
    ctxOf,            \* L.Context() of each facade's interpreter handle (NilCtx: none)
    pc,               \* interpreter thread of each facade: position in Connect
    acq,              \* inside Connect: whether the CompareAndSwap succeeded
    cur,              \* ordinal of the facade's current/last Connect call
    ncalls,           \* Connect calls made so far in the process
    callFac,          \* the facade each call was made on (0: call not made)
    ft,               \* f.t: "nil", "new" (set, open failed), "open", "closed"
    leaked,           \* an open transport of f was overwritten by a later TcpConnect
    statesNil,        \* f.states == nil
    states,           \* keys of f.states
    isWaitingForIDE,
    isIDEReady,
    m,                \* f.m: "free" or "interp"
    waiting,          \* the interpreter thread is in f.cond's notify list
    waitDone,         \* per call: items in the waitDone channel (capacity 1)
    watcher,          \* per call: "none", "waitctx", "ticking", "exited"
    cancelled,        \* contexts whose Done channel is closed
    cpc,              \* host thread calling Close on each facade
    rpc,              \* receive thread of each facade: the handler it is in
    req,              \* the request the receive thread is handling
    rest,             \* the part of the request's list still to be applied
    regBefore,        \* the registry as it was when the handler was entered
    registry,         \* the debugger's breakpoints: (File, Line) -> BreakPoint
    started,          \* dbg.Start has run
    attachedTo,       \* handles on which dbg.Attach installed the line hook
    hookKey,          \* the (File, Line) of the line event being handled
    stacks,           \* OnBreak's stacks: what f.dbg.GetStacks(L) returned
    evalCtx,          \* the EvalContext handed to f.dbg.Eval
    sent,             \* what the last OnBreak / OnEvalResult handed to f.t.Send
    inbox,            \* the messages the transport reads in this run, in order
    nread             \* how many of them the receive loop has handed to HandleMsg

callVars == <<cur, ncalls, callFac>>
facVars == <<ft, leaked, statesNil, states>>
flagVars == <<isWaitingForIDE, isIDEReady>>
syncVars == <<m, waiting>>
watchVars == <<waitDone, watcher, cancelled>>

\* the engine and the receive thread
engVars == <<rpc, req, rest, regBefore, registry, started, attachedTo, hookKey>>
\* outbound: the captured frames, the evaluation and the messages sent
outVars == <<stacks, evalCtx, sent>>

dbgVars == <<engVars, outVars, inbox, nread>>

vars == <<openConn, ctxOf, pc, acq, callVars, facVars, flagVars, syncVars,
          watchVars, cpc, dbgVars>>

\* ------------------------------------------------- breakpoint requests
NumLines == 2
MaxBps == 2

Files == {"a.lua"}
Lines == 1..NumLines
Keys == Files \X Lines
\* "" is the absent condition
Conditions == {"", "x > 0"}

\* proto.BreakPoint
ProtoBps == [File : Files, Line : Lines, Condition : Conditions]

RECURSIVE SeqsUpTo(_, _)
SeqsUpTo(S, n) ==
    IF n = 0 THEN {<<>>}
    ELSE LET shorter == SeqsUpTo(S, n - 1)
         IN  shorter \cup {Append(q, x) : q \in shorter, x \in S}

\* proto.AddBreakPointReq
AddReqs == [Clear : BOOLEAN, BreakPoints : SeqsUpTo(ProtoBps, MaxBps)]
\* proto.RemoveBreakPointReq
RemoveReqs == [Clear : {FALSE}, BreakPoints : SeqsUpTo(ProtoBps, MaxBps) \ {<<>>}]

NoReq == [Clear |-> FALSE, BreakPoints |-> <<>>]
EmptyRegistry == [k \in {} |-> NoReq]

\* ------------------------------------------------ frames and variables
MaxFrames == 2
MaxVars == 1

Names == {"x", "y"}
\* the engine's Variable
Variables == [Name : Names, Value : {"1"}, Type : {"number"}]
\* a nil *Variable
NilVariable == [Name |-> "", Value |-> "", Type |-> "nil"]

\* Variable.toProto: the wire form of a variable
toProto(v) == [name |-> v.Name, value |-> v.Value, valueTypeName |-> v.Type]

RECURSIVE MapToProto(_)
MapToProto(vs) ==
    IF vs = <<>> THEN <<>> ELSE <<toProto(Head(vs))>> \o MapToProto(Tail(vs))

FunctionNames == {"main"}

\* the engine's StackFrame, at one level of the call stack
FramesAt(level) ==
    [Level : {level}, File : Files, FunctionName : FunctionNames,
     Line : Lines, LocalVariables : SeqsUpTo(Variables, MaxVars),
     UpvalueVariables : SeqsUpTo(Variables, MaxVars)]

\* the frames from a level outwards: any number up to the outermost
RECURSIVE OuterStacks(_)
OuterStacks(level) ==
    IF level >= MaxFrames THEN {<<>>}
    ELSE {<<>>} \cup {<<fr>> \o outer : fr \in FramesAt(level),
                                       outer \in OuterStacks(level + 1)}

\* ------------------------------------------------------------ evaluation
MaxSeq == 2

Exprs == {"1+1", "x."}
\* proto.EvalReq
EvalReqs ==
    [Expr : Exprs, Seq : 1..MaxSeq, StackLevel : 0..(MaxFrames - 1),
     Depth : {1}, CacheId : {0, 1}]

EvalErrors == {"syntax error"}

\* no evaluation is under way
NoEval ==
    [Expr |-> "", Seq |-> 0, StackLevel |-> 0, Depth |-> 0, CacheId |-> 0,
     Success |-> FALSE, Error |-> "", Result |-> NilVariable]

\* ------------------------------------------------------------- messages
MaxMsgs == 3

\* the command ids of package proto
MsgIdInitReq == "InitReq"
MsgIdReadyReq == "ReadyReq"
MsgIdAddBreakPointReq == "AddBreakPointReq"
MsgIdRemoveBreakPointReq == "RemoveBreakPointReq"
MsgIdActionReq == "ActionReq"
MsgIdEvalReq == "EvalReq"
MsgIdBreakNotify == "BreakNotify"
MsgIdEvalRsp == "EvalRsp"

\* the ids HandleMsg has a case for
InboundIds ==
    {MsgIdInitReq, MsgIdReadyReq, MsgIdAddBreakPointReq,
     MsgIdRemoveBreakPointReq, MsgIdActionReq, MsgIdEvalReq}

\* ids with no case: the outbound ids and an id of no message
UnknownIds == {MsgIdBreakNotify, MsgIdEvalRsp, "0"}

Actions == {"Continue", "StepOver"}

InitMsg == [cmd |-> MsgIdInitReq, req |-> NoReq]
ReadyMsg == [cmd |-> MsgIdReadyReq, req |-> NoReq]
AddMsgs == {[cmd |-> MsgIdAddBreakPointReq, req |-> r] : r \in AddReqs}
RemoveMsgs == {[cmd |-> MsgIdRemoveBreakPointReq, req |-> r] : r \in RemoveReqs}
ActionMsgs == {[cmd |-> MsgIdActionReq, req |-> [Action |-> a]] : a \in Actions}
EvalMsgs == {[cmd |-> MsgIdEvalReq, req |-> r] : r \in EvalReqs}
UnknownMsgs == {[cmd |-> c, req |-> NoReq] : c \in UnknownIds}

\* nothing was sent
NoSend == <<>>

\* newFacade, and openConn's zero value
Init ==
    /\ openConn = 0
    /\ ctxOf \in [Facades -> Ctxs \cup {NilCtx}]
    /\ pc = [f \in Facades |-> "idle"]
    /\ acq = [f \in Facades |-> FALSE]
    /\ cur = [f \in Facades |-> 0]
    /\ ncalls = 0
    /\ callFac = [k \in Calls |-> 0]
    /\ ft = [f \in Facades |-> "nil"]
    /\ leaked = [f \in Facades |-> FALSE]
    /\ statesNil = [f \in Facades |-> FALSE]
    /\ states = [f \in Facades |-> {}]
    /\ isWaitingForIDE = [f \in Facades |-> FALSE]
    /\ isIDEReady = [f \in Facades |-> FALSE]
    /\ m = [f \in Facades |-> "free"]
    /\ waiting = [f \in Facades |-> FALSE]
    /\ waitDone = [k \in Calls |-> 0]
    /\ watcher = [k \in Calls |-> "none"]
    /\ cancelled = {}
    /\ cpc = [f \in Facades |-> "idle"]
    /\ rpc = [f \in Facades |-> "idle"]
    /\ req = [f \in Facades |-> NoReq]
    /\ rest = [f \in Facades |-> <<>>]
    /\ regBefore = [f \in Facades |-> EmptyRegistry]
    /\ registry = [f \in Facades |-> EmptyRegistry]
    /\ started = [f \in Facades |-> FALSE]
    /\ attachedTo = [f \in Facades |-> {}]
    /\ hookKey = [f \in Facades |-> <<>>]
    /\ stacks = [f \in Facades |-> <<>>]
    /\ evalCtx = [f \in Facades |-> NoEval]
    /\ sent = [f \in Facades |-> NoSend]
    /\ inbox = [f \in Facades |-> <<>>]
    /\ nread = [f \in Facades |-> 0]

\* a transport of facade f is connected and delivers messages to f.HandleMsg
Active(f) == ft[f] = "open" \/ leaked[f]

\* sync.Cond.Broadcast: every goroutine in the notify list is made runnable
Broadcast(f) == waiting' = [waiting EXCEPT ![f] = FALSE]

\* Connect is left: the thread is back in the script
Return(f) ==
    /\ pc' = [pc EXCEPT ![f] = "idle"]
    /\ acq' = [acq EXCEPT ![f] = FALSE]

\* ------------------------------------------------------------- Connect
\* CompareAndSwapInt32(&openConn, 0, 1) succeeded
ConnectAcquired(f) ==
    /\ openConn = 0
    /\ openConn' = 1
    /\ acq' = [acq EXCEPT ![f] = TRUE]
    /\ pc' = [pc EXCEPT ![f] = "tcp"]
    /\ UNCHANGED <<facVars, flagVars>>

\* a Connect that registers its handle before it looks at the guard
ConnectGuardHeld_Registers(f) ==
    /\ openConn # 0
    /\ acq' = [acq EXCEPT ![f] = FALSE]
    /\ pc' = [pc EXCEPT ![f] = "ret"]
    /\ states' = [states EXCEPT ![f] = @ \cup {f}]
    /\ UNCHANGED <<openConn, ft, leaked, statesNil, flagVars>>

\* the guard is held: the body of the if is skipped
ConnectGuardHeld(f) ==
    /\ openConn # 0
    /\ acq' = [acq EXCEPT ![f] = FALSE]
    /\ pc' = [pc EXCEPT ![f] = "ret"]
    /\ UNCHANGED <<openConn, facVars, flagVars>>

Connect(f) ==
    /\ pc[f] = "idle"
    /\ ncalls < MaxConnects
    /\ ncalls' = ncalls + 1
    /\ cur' = [cur EXCEPT ![f] = ncalls + 1]
    /\ callFac' = [callFac EXCEPT ![ncalls + 1] = f]
    /\ (ConnectAcquired(f) \/ ConnectGuardHeld(f))
    /\ UNCHANGED <<dbgVars, ctxOf, syncVars, watchVars, cpc>>

\* ---------------------------------------------------------- TcpConnect
\* f.states[L] = struct{}{} on a nil map panics
TcpPanic(f) ==
    /\ statesNil[f]
    /\ pc' = [pc EXCEPT ![f] = "panic"]
    /\ UNCHANGED <<acq, facVars, watchVars>>

\* f.t = &Transport{}; f.t.Connect failed: LuaError calls the global "error"
\* of the script.  The error function of the base library raises in the
\* calling script; where the script has put a function that returns in its
\* place, LuaError returns and TcpConnect returns err
TcpOpenFail(f) ==
    /\ ~statesNil[f]
    /\ states' = [states EXCEPT ![f] = @ \cup {f}]
    /\ leaked' = [leaked EXCEPT ![f] = @ \/ ft[f] = "open"]
    /\ ft' = [ft EXCEPT ![f] = "new"]
    /\ \E raises \in BOOLEAN :
          pc' = [pc EXCEPT ![f] = IF raises THEN "raised" ELSE "fail"]
    /\ UNCHANGED <<acq, statesNil, watchVars>>

\* f.t.Connect returned nil; waitDone := make(chan struct{}, 1); the watcher
\* goroutine is started when L.Context() is not nil
TcpOpenOk(f) ==
    /\ ~statesNil[f]
    /\ states' = [states EXCEPT ![f] = @ \cup {f}]
    /\ leaked' = [leaked EXCEPT ![f] = @ \/ ft[f] = "open"]
    /\ ft' = [ft EXCEPT ![f] = "open"]
    /\ watcher' = [watcher EXCEPT ![cur[f]] =
                      IF ctxOf[f] # NilCtx THEN "waitctx" ELSE "none"]
    /\ pc' = [pc EXCEPT ![f] = "w_check"]
    /\ UNCHANGED <<acq, statesNil, waitDone, cancelled>>

TcpConnect(f) ==
    /\ pc[f] = "tcp"
    /\ (TcpPanic(f) \/ TcpOpenFail(f) \/ TcpOpenOk(f))
    /\ UNCHANGED <<dbgVars, openConn, ctxOf, callVars, flagVars, syncVars, cpc>>

\* ------------------------------------------------------------ WaiteIDE
\* force is true at the only call site
WaiteCond(f) == ft[f] # "nil" /\ ~isWaitingForIDE[f] /\ ~isIDEReady[f]

\* a WaiteIDE that enters the wait whatever the flags say
WaiteCheck_AlwaysWaits(f) ==
    /\ pc[f] = "w_check"
    /\ pc' = [pc EXCEPT ![f] = "w_set"]
    /\ UNCHANGED <<dbgVars, openConn, ctxOf, acq, callVars, facVars, flagVars, syncVars,
                   watchVars, cpc>>

WaiteCheck(f) ==
    /\ pc[f] = "w_check"
    /\ pc' = [pc EXCEPT ![f] = IF WaiteCond(f) THEN "w_set" ELSE "w_done"]
    /\ UNCHANGED <<dbgVars, openConn, ctxOf, acq, callVars, facVars, flagVars, syncVars,
                   watchVars, cpc>>

WaiteSet(f) ==
    /\ pc[f] = "w_set"
    /\ isWaitingForIDE' = [isWaitingForIDE EXCEPT ![f] = TRUE]
    /\ pc' = [pc EXCEPT ![f] = "w_lock"]
    /\ UNCHANGED <<dbgVars, openConn, ctxOf, acq, callVars, facVars, isIDEReady, syncVars,
                   watchVars, cpc>>

WaiteLock(f) ==
    /\ pc[f] = "w_lock"
    /\ m[f] = "free"
    /\ m' = [m EXCEPT ![f] = "interp"]
    /\ pc' = [pc EXCEPT ![f] = "w_wait"]
    /\ UNCHANGED <<dbgVars, openConn, ctxOf, acq, callVars, facVars, flagVars, waiting,
                   watchVars, cpc>>

\* cond.Wait, first half: join the notify list and unlock
WaiteWait(f) ==
    /\ pc[f] = "w_wait"
    /\ waiting' = [waiting EXCEPT ![f] = TRUE]
    /\ m' = [m EXCEPT ![f] = "free"]
    /\ pc' = [pc EXCEPT ![f] = "w_blocked"]
    /\ UNCHANGED <<dbgVars, openConn, ctxOf, acq, callVars, facVars, flagVars, watchVars,
                   cpc>>

\* a Wait that returns without having been notified
WaiteWake_Spurious(f) ==
    /\ pc[f] = "w_blocked"
    /\ m[f] = "free"
    /\ m' = [m EXCEPT ![f] = "interp"]
    /\ waiting' = [waiting EXCEPT ![f] = FALSE]
    /\ pc' = [pc EXCEPT ![f] = "w_unlock"]
    /\ UNCHANGED <<dbgVars, openConn, ctxOf, acq, callVars, facVars, flagVars,
                   watchVars, cpc>>

\* cond.Wait, second half: notified, lock again
WaiteWake(f) ==
    /\ pc[f] = "w_blocked"
    /\ ~waiting[f]
    /\ m[f] = "free"
    /\ m' = [m EXCEPT ![f] = "interp"]
    /\ pc' = [pc EXCEPT ![f] = "w_unlock"]
    /\ UNCHANGED <<dbgVars, openConn, ctxOf, acq, callVars, facVars, flagVars, waiting,
                   watchVars, cpc>>

WaiteUnlock(f) ==
    /\ pc[f] = "w_unlock"
    /\ m' = [m EXCEPT ![f] = "free"]
    /\ pc' = [pc EXCEPT ![f] = "w_clear"]
    /\ UNCHANGED <<dbgVars, openConn, ctxOf, acq, callVars, facVars, flagVars, waiting,
                   watchVars, cpc>>

WaiteClear(f) ==
    /\ pc[f] = "w_clear"
    /\ isWaitingForIDE' = [isWaitingForIDE EXCEPT ![f] = FALSE]
    /\ pc' = [pc EXCEPT ![f] = "w_done"]
    /\ UNCHANGED <<dbgVars, openConn, ctxOf, acq, callVars, facVars, isIDEReady, syncVars,
                   watchVars, cpc>>

\* done <- struct{}{}: the channel is new for this call and has room for one
WaiteDone(f) ==
    /\ pc[f] = "w_done"
    /\ waitDone[cur[f]] = 0
    /\ waitDone' = [waitDone EXCEPT ![cur[f]] = 1]
    /\ pc' = [pc EXCEPT ![f] = "ret"]
    /\ UNCHANGED <<dbgVars, openConn, ctxOf, acq, callVars, facVars, flagVars, syncVars,
                   watcher, cancelled, cpc>>

\* L.Push(lua.LTrue); return 1
ConnectReturn(f) ==
    /\ pc[f] = "ret"
    /\ Return(f)
    /\ UNCHANGED <<dbgVars, openConn, ctxOf, callVars, facVars, flagVars, syncVars, watchVars,
                   cpc>>

\* L.Push(lua.LFalse); L.Push(lua.LString(err.Error())); return 2
ConnectFail(f) ==
    /\ pc[f] = "fail"
    /\ Return(f)
    /\ UNCHANGED <<dbgVars, openConn, ctxOf, callVars, facVars, flagVars, syncVars, watchVars,
                   cpc>>

\* the panic of the nil map write, or the error raised by LuaError, unwinds
\* Connect up to the script's protected call
Unwind(f) ==
    /\ pc[f] \in {"panic", "raised"}
    /\ Return(f)
    /\ UNCHANGED <<dbgVars, openConn, ctxOf, callVars, facVars, flagVars, syncVars, watchVars,
                   cpc>>

\* ------------------------------------- stopWaitIDEIfContextCanceled
\* case <-ctx.Done()
WatcherCtxDone(k) ==
    /\ watcher[k] = "waitctx"
    /\ ctxOf[callFac[k]] \in cancelled
    /\ watcher' = [watcher EXCEPT ![k] = "ticking"]
    /\ UNCHANGED <<dbgVars, openConn, ctxOf, pc, acq, callVars, facVars, flagVars,
                   syncVars, waitDone, cancelled, cpc>>

\* a watcher whose ticks wake nobody
WatcherTick_NoBroadcast(k) ==
    /\ watcher[k] = "ticking"
    /\ UNCHANGED vars

\* case <-ticker.C: f.cond.Broadcast()
WatcherTick(k) ==
    /\ watcher[k] = "ticking"
    /\ Broadcast(callFac[k])
    /\ UNCHANGED <<dbgVars, openConn, ctxOf, pc, acq, callVars, facVars, flagVars, m,
                   watchVars, cpc>>

\* case <-waitDone: return
WatcherDone(k) ==
    /\ watcher[k] = "ticking"
    /\ waitDone[k] = 1
    /\ waitDone' = [waitDone EXCEPT ![k] = 0]
    /\ watcher' = [watcher EXCEPT ![k] = "exited"]
    /\ UNCHANGED <<dbgVars, openConn, ctxOf, pc, acq, callVars, facVars, flagVars,
                   syncVars, cancelled, cpc>>

\* the host cancels a context
Cancel(c) ==
    /\ c \notin cancelled
    /\ cancelled' = cancelled \cup {c}
    /\ UNCHANGED <<dbgVars, openConn, ctxOf, pc, acq, callVars, facVars, flagVars,
                   syncVars, waitDone, watcher, cpc>>

\* ---------------------------------------------------------- OnReadyReq
\* HandleMsg(MsgIdReadyReq): f.isIDEReady = true; f.cond.Broadcast()
OnReadyReq(f) ==
    /\ Active(f)
    /\ rpc[f] = "idle"
    /\ isIDEReady' = [isIDEReady EXCEPT ![f] = TRUE]
    /\ Broadcast(f)
    /\ UNCHANGED <<engVars, outVars, inbox, openConn, ctxOf, pc, acq, callVars, facVars,
                   isWaitingForIDE, m, watchVars, cpc>>

\* --------------------------------------------------------------- Close
\* f.t == nil: return nil
CloseNoTransport(f) ==
    /\ ft[f] = "nil"
    /\ UNCHANGED <<openConn, statesNil, states, cpc>>

\* atomic.StoreInt32(&openConn, 0); f.states = nil
CloseRelease(f) ==
    /\ ft[f] # "nil"
    /\ openConn' = 0
    /\ statesNil' = [statesNil EXCEPT ![f] = TRUE]
    /\ states' = [states EXCEPT ![f] = {}]
    /\ cpc' = [cpc EXCEPT ![f] = "t_close"]

Close(f) ==
    /\ cpc[f] = "idle"
    /\ (CloseNoTransport(f) \/ CloseRelease(f))
    /\ UNCHANGED <<dbgVars, ctxOf, pc, acq, callVars, ft, leaked, flagVars, syncVars,
                   watchVars>>

\* return f.t.Close()
CloseTransport(f) ==
    /\ cpc[f] = "t_close"
    /\ cpc' = [cpc EXCEPT ![f] = "idle"]
    /\ ft' = [ft EXCEPT ![f] = "closed"]
    /\ UNCHANGED <<dbgVars, openConn, ctxOf, pc, acq, callVars, leaked, statesNil, states,
                   flagVars, syncVars, watchVars>>

\* what the engine's steps leave alone
lifeVars == <<openConn, ctxOf, acq, callVars, facVars, flagVars, syncVars,
              watchVars, cpc, inbox>>

\* ----------------------------------------------------------- OnInitReq
\* f.dbg.Start(f.helperCode); for state := range f.states { f.dbg.Attach(state) }
OnInitReq(f) ==
    /\ Active(f)
    /\ rpc[f] = "idle"
    /\ started' = [started EXCEPT ![f] = TRUE]
    /\ attachedTo' = [attachedTo EXCEPT ![f] = @ \cup states[f]]
    /\ UNCHANGED <<lifeVars, outVars, pc, rpc, req, rest, regBefore, registry, hookKey>>

\* --------------------------------------------------- breakpoint registry
\* a BreakPoint built without its condition
NewBreakPoint_NoCondition(bpProto) ==
    [File |-> bpProto.File, Line |-> bpProto.Line, Condition |-> ""]

\* bp := &BreakPoint{File: bpProto.File, Condition: bpProto.Condition, Line: bpProto.Line}
NewBreakPoint(bpProto) ==
    [File |-> bpProto.File, Line |-> bpProto.Line,
     Condition |-> bpProto.Condition]

\* Debugger.AddBreakPoint: insert or replace under the key (File, Line)
AddBreakPoint(reg, bp) ==
    [k \in DOMAIN reg \cup {<<bp.File, bp.Line>>} |->
        IF k = <<bp.File, bp.Line>> THEN bp ELSE reg[k]]

\* Debugger.RemoveBreakPoint
RemoveBreakPoint(reg, file, line) ==
    [k \in DOMAIN reg \ {<<file, line>>} |-> reg[k]]

\* Debugger.RemoveAllBreakpoints
RemoveAllBreakpoints(reg) == EmptyRegistry

\* the handler is entered: if req.Clear { f.dbg.RemoveAllBreakpoints() }
OnAddBreakPointReqClear(f, r) ==
    registry' = [registry EXCEPT ![f] =
                    IF r.Clear THEN RemoveAllBreakpoints(@) ELSE @]

OnAddBreakPointReq(f, r) ==
    /\ Active(f)
    /\ rpc[f] = "idle"
    /\ rpc' = [rpc EXCEPT ![f] = "add"]
    /\ req' = [req EXCEPT ![f] = r]
    /\ rest' = [rest EXCEPT ![f] = r.BreakPoints]
    /\ regBefore' = [regBefore EXCEPT ![f] = registry[f]]
    /\ OnAddBreakPointReqClear(f, r)
    /\ UNCHANGED <<lifeVars, outVars, pc, started, attachedTo, hookKey>>

\* one turn of the loop over req.BreakPoints: f.dbg.AddBreakPoint(bp)
OnAddBreakPointReqLoop(f) ==
    /\ rpc[f] = "add"
    /\ rest[f] # <<>>
    /\ registry' = [registry EXCEPT ![f] =
                       AddBreakPoint(@, NewBreakPoint(Head(rest[f])))]
    /\ rest' = [rest EXCEPT ![f] = Tail(@)]
    /\ UNCHANGED <<lifeVars, outVars, nread, pc, rpc, req, regBefore, started, attachedTo,
                   hookKey>>

\* one turn of the loop: f.dbg.RemoveBreakPoint(bp.File, bp.Line)
OnRemoveBreakPointReqLoop(f) ==
    /\ rpc[f] = "remove"
    /\ rest[f] # <<>>
    /\ registry' = [registry EXCEPT ![f] =
                       RemoveBreakPoint(@, Head(rest[f]).File, Head(rest[f]).Line)]
    /\ rest' = [rest EXCEPT ![f] = Tail(@)]
    /\ UNCHANGED <<lifeVars, outVars, nread, pc, rpc, req, regBefore, started, attachedTo,
                   hookKey>>

OnRemoveBreakPointReq(f, r) ==
    /\ Active(f)
    /\ rpc[f] = "idle"
    /\ rpc' = [rpc EXCEPT ![f] = "remove"]
    /\ req' = [req EXCEPT ![f] = r]
    /\ rest' = [rest EXCEPT ![f] = r.BreakPoints]
    /\ regBefore' = [regBefore EXCEPT ![f] = registry[f]]
    /\ UNCHANGED <<lifeVars, outVars, pc, registry, started, attachedTo, hookKey>>

\* the loop is over: the handler returns to the receive loop
HandlerReturn(f) ==
    /\ rpc[f] \in {"add", "remove"}
    /\ rest[f] = <<>>
    /\ rpc' = [rpc EXCEPT ![f] = "idle"]
    /\ req' = [req EXCEPT ![f] = NoReq]
    /\ regBefore' = [regBefore EXCEPT ![f] = EmptyRegistry]
    /\ UNCHANGED <<lifeVars, outVars, nread, pc, rest, registry, started, attachedTo, hookKey>>

\* ------------------------------------------------------------ line hook
\* the attached interpreter executes a line
HookLine(f, k) ==
    /\ pc[f] = "idle"
    /\ f \in attachedTo[f]
    /\ pc' = [pc EXCEPT ![f] = "hook"]
    /\ hookKey' = [hookKey EXCEPT ![f] = k]
    /\ UNCHANGED <<lifeVars, outVars, nread, rpc, req, rest, regBefore, registry, started,
                   attachedTo>>

\* the hook looks (File, Line) up in the registry; a breakpoint with a
\* condition matches when the condition evaluates to true
HookLookup(f) ==
    /\ pc[f] = "hook"
    /\ \E match \in IF hookKey[f] \notin DOMAIN registry[f] THEN {FALSE}
                     ELSE IF registry[f][hookKey[f]].Condition = "" THEN {TRUE}
                     ELSE BOOLEAN :
          pc' = [pc EXCEPT ![f] = IF match THEN "break" ELSE "idle"]
    /\ hookKey' = [hookKey EXCEPT ![f] = IF pc'[f] = "idle" THEN <<>> ELSE @]
    /\ UNCHANGED <<lifeVars, outVars, nread, rpc, req, rest, regBefore, registry, started,
                   attachedTo>>

\* f.dbg.GetStacks(L): the frames from the innermost, which is at the line of
\* the hook, to the outermost
GetStacks(f) ==
    IF hookKey[f] = <<>> THEN {}
    ELSE {<<fr>> \o outer :
            fr \in {t \in FramesAt(0) : t.File = hookKey[f][1]
                                        /\ t.Line = hookKey[f][2]},
            outer \in OuterStacks(1)}

\* f.t.Send(cmd, msg)
Send(f, cmd, msg) == sent' = [sent EXCEPT ![f] = <<[cmd |-> cmd, msg |-> msg]>>]

\* the proto.Stack built from one frame: both loops append to s.LocalVariables
ProtoStack(stack) ==
    [Level |-> stack.Level, File |-> stack.File,
     FunctionName |-> stack.FunctionName, Line |-> stack.Line,
     LocalVariables |-> MapToProto(stack.LocalVariables)
                           \o MapToProto(stack.UpvalueVariables),
     UpvalueVariables |-> <<>>]

\* notify.Stacks: one proto.Stack per frame, appended in the order of stacks
RECURSIVE ProtoStacks(_)
ProtoStacks(stks) ==
    IF stks = <<>> THEN <<>>
    ELSE <<ProtoStack(Head(stks))>> \o ProtoStacks(Tail(stks))

\* proto.BreakNotify
BreakNotify(stks) == [Cmd |-> MsgIdBreakNotify, Stacks |-> ProtoStacks(stks)]

\* Facade.OnBreak, then the thread blocks until a resume action arrives
OnBreak(f, stks) ==
    /\ pc[f] = "break"
    /\ stacks' = [stacks EXCEPT ![f] = stks]
    /\ Send(f, MsgIdBreakNotify, BreakNotify(stks))
    /\ pc' = [pc EXCEPT ![f] = "paused"]
    /\ UNCHANGED <<lifeVars, engVars, evalCtx, nread>>

\* f.dbg.DoAction(req.Action): a thread paused at a breakpoint is resumed
DoAction(f) ==
    /\ pc[f] = "paused"
    /\ pc' = [pc EXCEPT ![f] = "idle"]
    /\ hookKey' = [hookKey EXCEPT ![f] = <<>>]

OnActionReq(f) ==
    /\ Active(f)
    /\ rpc[f] = "idle"
    /\ DoAction(f)
    /\ UNCHANGED <<lifeVars, outVars, rpc, req, rest, regBefore, registry, started,
                   attachedTo>>

\* --------------------------------------------------------------- Eval
\* context := &EvalContext{...}; f.dbg.Eval(context)
OnEvalReq(f, r) ==
    /\ Active(f)
    /\ rpc[f] = "idle"
    /\ evalCtx' = [evalCtx EXCEPT ![f] =
                      [Expr |-> r.Expr, Seq |-> r.Seq, StackLevel |-> r.StackLevel,
                       Depth |-> r.Depth, CacheId |-> r.CacheId,
                       Success |-> FALSE, Error |-> "", Result |-> NilVariable]]
    /\ rpc' = [rpc EXCEPT ![f] = "eval"]
    /\ req' = [req EXCEPT ![f] = r]
    /\ UNCHANGED <<lifeVars, stacks, sent, pc, rest, regBefore, registry, started,
                   attachedTo, hookKey>>

\* Debugger.Eval: the evaluation sets Success and Result, or Error, once
Eval(f) ==
    /\ rpc[f] = "eval"
    /\ \/ \E v \in Variables :
             evalCtx' = [evalCtx EXCEPT ![f].Success = TRUE, ![f].Result = v]
       \/ \E e \in EvalErrors :
             evalCtx' = [evalCtx EXCEPT ![f].Error = e]
    /\ rpc' = [rpc EXCEPT ![f] = "evaluated"]
    /\ UNCHANGED <<lifeVars, stacks, sent, nread, pc, req, rest, regBefore, registry,
                   started, attachedTo, hookKey>>

\* an EvalRsp that does not echo the sequence number
EvalRsp_NoSeq(ctx) ==
    [Seq |-> 0, Success |-> ctx.Success, Error |-> ctx.Error,
     Value |-> IF ctx.Success THEN toProto(ctx.Result) ELSE toProto(NilVariable)]

\* rsp := proto.EvalRsp{...}; if ctx.Success { rsp.Value = ctx.Result.toProto() }
EvalRsp(ctx) ==
    [Seq |-> ctx.Seq, Success |-> ctx.Success, Error |-> ctx.Error,
     Value |-> IF ctx.Success THEN toProto(ctx.Result) ELSE toProto(NilVariable)]

\* Facade.OnEvalResult, called by the engine when the evaluation is over
OnEvalResult(f) ==
    /\ rpc[f] = "evaluated"
    /\ Send(f, MsgIdEvalRsp, EvalRsp(evalCtx[f]))
    /\ rpc' = [rpc EXCEPT ![f] = "idle"]
    /\ UNCHANGED <<lifeVars, stacks, evalCtx, nread, pc, req, rest, regBefore, registry,
                   started, attachedTo, hookKey>>

\* ----------------------------------------------------------- HandleMsg
\* a dispatcher whose default case stops the engine
HandleMsg_DefaultStops(f, msg) ==
    \/ msg.cmd = MsgIdInitReq /\ OnInitReq(f)
    \/ msg.cmd = MsgIdReadyReq /\ OnReadyReq(f)
    \/ msg.cmd = MsgIdAddBreakPointReq /\ OnAddBreakPointReq(f, msg.req)
    \/ msg.cmd = MsgIdRemoveBreakPointReq /\ OnRemoveBreakPointReq(f, msg.req)
    \/ msg.cmd = MsgIdActionReq /\ OnActionReq(f)
    \/ msg.cmd = MsgIdEvalReq /\ OnEvalReq(f, msg.req)
    \/ /\ msg.cmd \notin InboundIds
       /\ started' = [started EXCEPT ![f] = FALSE]
       /\ UNCHANGED <<lifeVars, outVars, pc, rpc, req, rest, regBefore, registry,
                      attachedTo, hookKey>>

\* switch cmd { ... }: six cases and no default
HandleMsg(f, msg) ==
    \/ msg.cmd = MsgIdInitReq /\ OnInitReq(f)
    \/ msg.cmd = MsgIdReadyReq /\ OnReadyReq(f)
    \/ msg.cmd = MsgIdAddBreakPointReq /\ OnAddBreakPointReq(f, msg.req)
    \/ msg.cmd = MsgIdRemoveBreakPointReq /\ OnRemoveBreakPointReq(f, msg.req)
    \/ msg.cmd = MsgIdActionReq /\ OnActionReq(f)
    \/ msg.cmd = MsgIdEvalReq /\ OnEvalReq(f, msg.req)
    \/ msg.cmd \notin InboundIds /\ UNCHANGED <<lifeVars, engVars, outVars, pc>>

\* the IDE sends msg; the transport's receive loop, which runs while the
\* transport is open, hands it to f.t.Handler
Receive(f, msg) ==
    /\ Active(f)
    /\ rpc[f] = "idle"
    /\ HandleMsg(f, msg)
    /\ UNCHANGED nread

\* the receive loop hands the next message of the inbox to f.t.Handler
ReceiveNext(f) ==
    /\ Active(f)
    /\ rpc[f] = "idle"
    /\ nread[f] < Len(inbox[f])
    /\ HandleMsg(f, inbox[f][nread[f] + 1])
    /\ nread' = [nread EXCEPT ![f] = @ + 1]

\* ---------------------------------------------------------------- Next
Next ==
    \/ \E f \in Facades : Connect(f)
    \/ \E f \in Facades : TcpConnect(f)
    \/ \E f \in Facades : WaiteCheck(f)
    \/ \E f \in Facades : WaiteSet(f)
    \/ \E f \in Facades : WaiteLock(f)
    \/ \E f \in Facades : WaiteWait(f)
    \/ \E f \in Facades : WaiteWake(f)
    \/ \E f \in Facades : WaiteUnlock(f)
    \/ \E f \in Facades : WaiteClear(f)
    \/ \E f \in Facades : WaiteDone(f)
    \/ \E f \in Facades : ConnectReturn(f)
    \/ \E f \in Facades : ConnectFail(f)
    \/ \E f \in Facades : Unwind(f)
    \/ \E k \in Calls : WatcherCtxDone(k)
    \/ \E k \in Calls : WatcherTick(k)
    \/ \E k \in Calls : WatcherDone(k)
    \/ \E c \in Ctxs : Cancel(c)
    \/ \E f \in Facades : Receive(f, ReadyMsg)
    \/ \E f \in Facades : Close(f)
    \/ \E f \in Facades : CloseTransport(f)

Spec == Init /\ [][Next]_vars

\* --------------------------------------------- the debugger of one facade
\* the facade whose debugger is followed; its handle has no context
Dbg == CHOOSE f \in Facades : \A g \in Facades : f <= g

InitDbg == Init /\ ctxOf = [f \in Facades |-> NilCtx]

\* the requests followed together with the session and the hook carry at most
\* one breakpoint; SpecReg follows the longer lists
DbgAddReqs == {r \in AddReqs : Len(r.BreakPoints) <= 1}
DbgRemoveReqs == {r \in RemoveReqs : Len(r.BreakPoints) <= 1}

DbgMsgs ==
    {InitMsg, ReadyMsg} \cup {msg \in AddMsgs : msg.req \in DbgAddReqs}
        \cup {msg \in RemoveMsgs : msg.req \in DbgRemoveReqs}
        \cup ActionMsgs \cup UnknownMsgs

\* the frames captured there: the frame of the line, with no variables
DbgStacks ==
    IF hookKey[Dbg] = <<>> THEN {}
    ELSE {<<[Level |-> 0, File |-> hookKey[Dbg][1], FunctionName |-> "main",
             Line |-> hookKey[Dbg][2], LocalVariables |-> <<>>,
             UpvalueVariables |-> <<>>]>>}

NextDbg ==
    \/ Connect(Dbg)
    \/ TcpConnect(Dbg)
    \/ WaiteCheck(Dbg)
    \/ WaiteSet(Dbg)
    \/ WaiteLock(Dbg)
    \/ WaiteWait(Dbg)
    \/ WaiteWake(Dbg)
    \/ WaiteUnlock(Dbg)
    \/ WaiteClear(Dbg)
    \/ WaiteDone(Dbg)
    \/ ConnectReturn(Dbg)
    \/ ConnectFail(Dbg)
    \/ Unwind(Dbg)
    \/ Close(Dbg)
    \/ CloseTransport(Dbg)
    \/ \E msg \in DbgMsgs : Receive(Dbg, msg)
    \/ OnAddBreakPointReqLoop(Dbg)
    \/ OnRemoveBreakPointReqLoop(Dbg)
    \/ HandlerReturn(Dbg)
    \/ \E k \in Keys : HookLine(Dbg, k)
    \/ HookLookup(Dbg)
    \/ \E stks \in DbgStacks : OnBreak(Dbg, stks)

SpecDbg == InitDbg /\ [][NextDbg]_vars

\* a goroutine that can run does run: the thread inside Connect or inside the
\* hook, the receive thread inside a handler, the host inside Close.  What the
\* script, the IDE and the host choose to start is not forced.
FairDbg ==
    /\ SpecDbg
    /\ WF_vars(TcpConnect(Dbg) \/ WaiteCheck(Dbg) \/ WaiteSet(Dbg)
                \/ WaiteLock(Dbg) \/ WaiteWait(Dbg) \/ WaiteWake(Dbg)
                \/ WaiteUnlock(Dbg) \/ WaiteClear(Dbg) \/ WaiteDone(Dbg)
                \/ ConnectReturn(Dbg) \/ ConnectFail(Dbg) \/ Unwind(Dbg)
                \/ HookLookup(Dbg)
                \/ \E stks \in DbgStacks : OnBreak(Dbg, stks))
    /\ WF_vars(OnAddBreakPointReqLoop(Dbg) \/ OnRemoveBreakPointReqLoop(Dbg)
                \/ HandlerReturn(Dbg))
    /\ WF_vars(CloseTransport(Dbg))

\* ------------------------------------------ the synchronizer of one facade
One == {Dbg}

NextOne ==
    \/ \E f \in One : Connect(f)
    \/ \E f \in One : TcpConnect(f)
    \/ \E f \in One : WaiteCheck(f)
    \/ \E f \in One : WaiteSet(f)
    \/ \E f \in One : WaiteLock(f)
    \/ \E f \in One : WaiteWait(f)
    \/ \E f \in One : WaiteWake(f)
    \/ \E f \in One : WaiteUnlock(f)
    \/ \E f \in One : WaiteClear(f)
    \/ \E f \in One : WaiteDone(f)
    \/ \E f \in One : ConnectReturn(f)
    \/ \E f \in One : ConnectFail(f)
    \/ \E f \in One : Unwind(f)
    \/ \E k \in Calls : WatcherCtxDone(k)
    \/ \E k \in Calls : WatcherTick(k)
    \/ \E k \in Calls : WatcherDone(k)
    \/ \E c \in Ctxs : Cancel(c)
    \/ \E f \in One : Receive(f, ReadyMsg)
    \/ \E f \in One : Close(f)
    \/ \E f \in One : CloseTransport(f)

\* the interpreter thread inside Connect
ThreadStep(f) ==
    \/ TcpConnect(f) \/ WaiteCheck(f) \/ WaiteSet(f) \/ WaiteLock(f)
    \/ WaiteWait(f) \/ WaiteWake(f) \/ WaiteUnlock(f) \/ WaiteClear(f)
    \/ WaiteDone(f) \/ ConnectReturn(f) \/ ConnectFail(f) \/ Unwind(f)

\* the scheduler runs every runnable goroutine, the ticker fires every 100 ms
\* and a select takes a ready case; Connect calls, ReadyReq, cancellation and
\* Close are the script's, the IDE's and the host's to make
FairOne ==
    /\ Init
    /\ [][NextOne]_vars
    /\ \A f \in One : WF_vars(ThreadStep(f))
    /\ \A f \in One : WF_vars(CloseTransport(f))
    /\ \A k \in Calls : WF_vars(WatcherCtxDone(k))
    /\ \A k \in Calls : WF_vars(WatcherTick(k))
    /\ \A k \in Calls : WF_vars(WatcherDone(k))

\* ------------------------------------ the breakpoint handlers on their own
\* every registry over the keys
Registries ==
    UNION {{[k \in D |-> [File |-> k[1], Line |-> k[2], Condition |-> c[k]]] :
              c \in [D -> Conditions]} : D \in SUBSET Keys}

\* facade Dbg after its first Connect returned on a ReadyReq, with any registry
SessionOpen ==
    /\ openConn = 1
    /\ ctxOf = [f \in Facades |-> NilCtx]
    /\ pc = [f \in Facades |-> "idle"]
    /\ acq = [f \in Facades |-> FALSE]
    /\ cur = [f \in Facades |-> IF f = Dbg THEN 1 ELSE 0]
    /\ ncalls = 1
    /\ callFac = [k \in Calls |-> IF k = 1 THEN Dbg ELSE 0]
    /\ ft = [f \in Facades |-> IF f = Dbg THEN "open" ELSE "nil"]
    /\ leaked = [f \in Facades |-> FALSE]
    /\ statesNil = [f \in Facades |-> FALSE]
    /\ states = [f \in Facades |-> IF f = Dbg THEN {Dbg} ELSE {}]
    /\ isWaitingForIDE = [f \in Facades |-> FALSE]
    /\ isIDEReady = [f \in Facades |-> f = Dbg]
    /\ m = [f \in Facades |-> "free"]
    /\ waiting = [f \in Facades |-> FALSE]
    /\ waitDone = [k \in Calls |-> IF k = 1 THEN 1 ELSE 0]
    /\ watcher = [k \in Calls |-> "none"]
    /\ cancelled = {}
    /\ cpc = [f \in Facades |-> "idle"]
    /\ rpc = [f \in Facades |-> "idle"]
    /\ req = [f \in Facades |-> NoReq]
    /\ rest = [f \in Facades |-> <<>>]
    /\ regBefore = [f \in Facades |-> EmptyRegistry]
    /\ started = [f \in Facades |-> FALSE]
    /\ attachedTo = [f \in Facades |-> {}]
    /\ hookKey = [f \in Facades |-> <<>>]
    /\ stacks = [f \in Facades |-> <<>>]
    /\ evalCtx = [f \in Facades |-> NoEval]
    /\ sent = [f \in Facades |-> NoSend]
    /\ nread = [f \in Facades |-> 0]

\* the IDE sends no script of messages: it sends what it likes when it likes
NoInbox == inbox = [f \in Facades |-> <<>>]

InitReg ==
    /\ NoInbox
    /\ SessionOpen
    /\ \E reg \in Registries :
          registry = [f \in Facades |-> IF f = Dbg THEN reg ELSE EmptyRegistry]

NextReg ==
    \/ \E msg \in AddMsgs \cup RemoveMsgs : Receive(Dbg, msg)
    \/ OnAddBreakPointReqLoop(Dbg)
    \/ OnRemoveBreakPointReqLoop(Dbg)
    \/ HandlerReturn(Dbg)

SpecReg == InitReg /\ [][NextReg]_vars

\* ---------------------------------------------- the pause, any call stack
NextBrk ==
    \/ Receive(Dbg, InitMsg)
    \/ \E k \in Keys : HookLine(Dbg, k)
    \/ HookLookup(Dbg)
    \/ \E stks \in GetStacks(Dbg) : OnBreak(Dbg, stks)
    \/ \E msg \in ActionMsgs : Receive(Dbg, msg)

SpecBrk == InitReg /\ [][NextBrk]_vars

\* ------------------------------------------------ evaluation on its own
InitEval ==
    /\ NoInbox
    /\ SessionOpen
    /\ registry = [f \in Facades |-> EmptyRegistry]

NextEval ==
    \/ \E msg \in EvalMsgs : Receive(Dbg, msg)
    \/ Eval(Dbg)
    \/ OnEvalResult(Dbg)

SpecEval == InitEval /\ [][NextEval]_vars

\* ------------------------------------------- the dispatcher on a script
\* one message of each inbound kind but ActionReq, which needs a paused
\* thread, and the messages with an id HandleMsg has no case for
ScriptMsgs ==
    {InitMsg, ReadyMsg}
        \cup {msg \in AddMsgs : msg.req.Clear /\ Len(msg.req.BreakPoints) = 1
                                 /\ msg.req.BreakPoints[1].Line = 1
                                 /\ msg.req.BreakPoints[1].Condition = ""}
        \cup {msg \in RemoveMsgs : Len(msg.req.BreakPoints) = 1
                                    /\ msg.req.BreakPoints[1].Line = 1
                                    /\ msg.req.BreakPoints[1].Condition = ""}
        \cup {msg \in EvalMsgs : msg.req.Expr = "1+1" /\ msg.req.Seq = 1
                                  /\ msg.req.StackLevel = 0 /\ msg.req.CacheId = 0}
        \cup UnknownMsgs

InitScript ==
    /\ SessionOpen
    /\ registry = [f \in Facades |-> EmptyRegistry]
    /\ \E script \in SeqsUpTo(ScriptMsgs, MaxMsgs) :
          inbox = [f \in Facades |-> IF f = Dbg THEN script ELSE <<>>]

NextMsg ==
    \/ ReceiveNext(Dbg)
    \/ OnAddBreakPointReqLoop(Dbg)
    \/ OnRemoveBreakPointReqLoop(Dbg)
    \/ HandlerReturn(Dbg)
    \/ Eval(Dbg)
    \/ OnEvalResult(Dbg)

SpecMsg == InitScript /\ [][NextMsg]_vars

\* ================================================================ claims

\* C1: at most one facade at a time holds an active session (a connected
\* transport that has not been closed), whatever the interleaving of Connect
\* and Close calls.
C1_AtMostOneActiveSession ==
    Cardinality({f \in Facades : Active(f)}) <= 1

\* C2: a Connect that finds the guard held never reaches the success return
\* (L.Push(lua.LTrue)): it is rejected.
C2_GuardHeldConnectRejected ==
    \A f \in Facades : pc[f] = "ret" => acq[f]

\* C3: from the failed CompareAndSwap to its return, a Connect that found the
\* guard held changes neither the guard, nor any facade's attached set,
\* transport or isIDEReady / isWaitingForIDE flags.
C3_GuardHeldConnectChangesNothing ==
    [][\A f \in Facades :
          (\/ pc[f] = "idle" /\ pc'[f] = "ret"
           \/ pc[f] = "ret" /\ ~acq[f] /\ pc'[f] = "idle")
          => UNCHANGED <<openConn, states, statesNil, attachedTo, ft, leaked,
                         isIDEReady, isWaitingForIDE>>]_vars

C3_Witness ==
    \E f, g \in Facades :
        /\ f # g
        /\ pc[f] = "ret" /\ ~acq[f]
        /\ ft[g] = "open" /\ states[g] = {g} /\ isIDEReady[g]

\* the thread is inside WaiteIDE
InWaite(f) ==
    pc[f] \in {"w_check", "w_set", "w_lock", "w_wait", "w_blocked", "w_unlock",
               "w_clear", "w_done"}

\* C4: once a ReadyReq has been handled after the transport was opened, the
\* interpreter thread inside WaiteIDE eventually leaves it, with no
\* cancellation needed.
C4_ReadyReleasesWait ==
    \A f \in Facades : (InWaite(f) /\ isIDEReady[f]) ~> (pc[f] = "ret")

\* C5: once the context of a Connect that opened its transport is cancelled
\* (before the call or during the wait), the thread eventually reaches the
\* success return, with or without a ReadyReq.
C5_CancelReleasesWait ==
    \A f \in Facades :
        (InWaite(f) /\ ctxOf[f] # NilCtx /\ ctxOf[f] \in cancelled)
            ~> (pc[f] = "ret" /\ acq[f])

C5_Witness ==
    \E f \in Facades :
        /\ pc[f] = "ret" /\ acq[f]
        /\ ~isIDEReady[f]
        /\ ctxOf[f] \in cancelled

\* C6: a Connect that acquired the guard and opened the transport is past the
\* ready-wait only when a ReadyReq has been handled or its context is
\* cancelled.
C6_NoReturnBeforeReadyOrCancel ==
    \A f \in Facades :
        (acq[f] /\ pc[f] \in {"w_unlock", "w_clear", "w_done", "ret"})
            => (isIDEReady[f] \/ (ctxOf[f] # NilCtx /\ ctxOf[f] \in cancelled))

C6_Witness ==
    \E f \in Facades :
        /\ pc[f] = "ret" /\ acq[f]
        /\ isIDEReady[f]
        /\ ctxOf[f] \notin cancelled
        /\ watcher[cur[f]] = "waitctx"

\* C7: a Close entered on a facade with no open session (never connected, or
\* already closed) leaves the guard openConn as it was.
C7_CloseWithoutSessionIsNoOp ==
    [][\A f \in Facades :
          (ft[f] \in {"nil", "closed"} /\ cpc[f] = "idle" /\ cpc'[f] # "idle")
          => openConn' = openConn]_vars

\* C8: once the session has been closed, a thread paused at a breakpoint is
\* eventually released.
C8_CloseReleasesPaused ==
    \A f \in Facades : (ft[f] = "closed" /\ pc[f] = "paused") ~> (pc[f] # "paused")

\* the registry an AddBreakPointReq r leaves when applied to old: the keys of
\* the list, and old's keys unless Clear is set; a listed key holds the fields
\* of its last occurrence
KeyOf(b) == <<b.File, b.Line>>

LastOf(r, k) ==
    r.BreakPoints[CHOOSE i \in DOMAIN r.BreakPoints :
        /\ KeyOf(r.BreakPoints[i]) = k
        /\ \A j \in DOMAIN r.BreakPoints :
              KeyOf(r.BreakPoints[j]) = k => j <= i]

Listed(r) == {KeyOf(r.BreakPoints[i]) : i \in DOMAIN r.BreakPoints}

RegistryAfter(old, r) ==
    [k \in (IF r.Clear THEN {} ELSE DOMAIN old) \cup Listed(r) |->
        IF k \in Listed(r)
          THEN [File |-> LastOf(r, k).File, Line |-> LastOf(r, k).Line,
                Condition |-> LastOf(r, k).Condition]
          ELSE old[k]]

\* what a lookup of key k finds in reg
Lookup(reg, k) == IF k \in DOMAIN reg THEN {reg[k]} ELSE {}

\* C9: while an AddBreakPointReq with Clear is being applied, the lookup of a
\* hook finds what it would find in the old registry or in the new one.
C9_ClearAndAddIsAtomic ==
    \A f \in Facades :
        (pc[f] = "hook" /\ rpc[f] = "add" /\ req[f].Clear)
        => \/ Lookup(registry[f], hookKey[f]) = Lookup(regBefore[f], hookKey[f])
           \/ Lookup(registry[f], hookKey[f]) =
                 Lookup(RegistryAfter(regBefore[f], req[f]), hookKey[f])

\* C10: when the handler of an AddBreakPointReq is through its list, the
\* registry holds the listed keys, with the old keys when Clear is unset, and
\* every listed key carries File, Line and Condition of its last occurrence.
C10_AddBreakPointReqResult ==
    \A f \in Facades :
        (rpc[f] = "add" /\ rest[f] = <<>>)
        => registry[f] = RegistryAfter(regBefore[f], req[f])

C10_Witness ==
    /\ rpc[Dbg] = "add" /\ rest[Dbg] = <<>>
    /\ ~req[Dbg].Clear
    /\ Len(req[Dbg].BreakPoints) = 2
    /\ KeyOf(req[Dbg].BreakPoints[1]) = KeyOf(req[Dbg].BreakPoints[2])
    /\ req[Dbg].BreakPoints[1].Condition # req[Dbg].BreakPoints[2].Condition
    /\ DOMAIN regBefore[Dbg] \ Listed(req[Dbg]) # {}
    /\ KeyOf(req[Dbg].BreakPoints[1]) \in DOMAIN regBefore[Dbg]

\* the stack entry of one captured frame: its four fields, its local
\* variables and its upvalue variables, each list in the wire form
StackEntry(frame) ==
    [Level |-> frame.Level, File |-> frame.File,
     FunctionName |-> frame.FunctionName, Line |-> frame.Line,
     LocalVariables |-> MapToProto(frame.LocalVariables),
     UpvalueVariables |-> MapToProto(frame.UpvalueVariables)]

\* C11: the call of OnBreak that paused the thread sent exactly one message,
\* a BreakNotify with one stack entry per captured frame in the captured
\* order, each with the frame's Level, File, FunctionName and Line, its local
\* variables under LocalVariables and its upvalue variables under
\* UpvalueVariables.
C11_BreakNotifyCarriesFrames ==
    \A f \in Facades :
        pc[f] = "paused"
        => /\ Len(sent[f]) = 1
           /\ sent[f][1].cmd = MsgIdBreakNotify
           /\ Len(sent[f][1].msg.Stacks) = Len(stacks[f])
           /\ \A i \in DOMAIN stacks[f] :
                 sent[f][1].msg.Stacks[i] = StackEntry(stacks[f][i])

\* C12: the EvalContext handed to the engine carries Expr, Seq, StackLevel,
\* Depth and CacheId of the EvalReq; the EvalRsp sent for the context echoes
\* that Seq with the context's Success and Error, and has a Value only when
\* Success is true.
C12_EvalRoundTrip ==
    \A f \in Facades :
        /\ rpc[f] \in {"eval", "evaluated"}
           => /\ evalCtx[f].Expr = req[f].Expr
              /\ evalCtx[f].Seq = req[f].Seq
              /\ evalCtx[f].StackLevel = req[f].StackLevel
              /\ evalCtx[f].Depth = req[f].Depth
              /\ evalCtx[f].CacheId = req[f].CacheId
        /\ (rpc[f] = "idle" /\ evalCtx[f] # NoEval)
           => /\ Len(sent[f]) = 1
              /\ sent[f][1].cmd = MsgIdEvalRsp
              /\ sent[f][1].msg.Seq = req[f].Seq
              /\ sent[f][1].msg.Seq = evalCtx[f].Seq
              /\ sent[f][1].msg.Success = evalCtx[f].Success
              /\ sent[f][1].msg.Error = evalCtx[f].Error
              /\ sent[f][1].msg.Value # toProto(NilVariable) => evalCtx[f].Success

C12_Witness ==
    /\ evalCtx[Dbg].Error # ""
    /\ ~evalCtx[Dbg].Success
    /\ evalCtx[Dbg].Seq = MaxSeq
    /\ rpc[Dbg] = "idle"
    /\ sent[Dbg][1].msg.Seq = MaxSeq
    /\ sent[Dbg][1].msg.Value = toProto(NilVariable)

\* C13: whenever no Connect and no Close is under way, the guard openConn is
\* set exactly when some facade has a session open; in particular it is not
\* left set by a Connect whose transport open failed.
C13_GuardSetIffSessionOpen ==
    (\A f \in Facades : pc[f] = "idle" /\ cpc[f] = "idle")
        => ((openConn = 1) <=> (\E f \in Facades : Active(f)))

\* C14: a Connect that acquired the guard and whose transport open failed
\* leaves by the failure return (false and the error message): it is never
\* unwound by an error raised in the calling script.
C14_OpenFailureReturnsFailure ==
    \A f \in Facades : pc[f] # "raised"

\* C15: no operation panics in the calling thread, whatever the sequence of
\* Connect, Close and inbound messages; a Connect after the facade's Close
\* ends with a normal result.
C15_NoPanic ==
    \A f \in Facades : pc[f] # "panic"

\* C16: isWaitingForIDE is written by the interpreter thread, and isIDEReady by
\* the receive thread, only while the writing thread holds the mutex f.m.
C16_FlagsUnderMutex ==
    [][\A f \in Facades :
          /\ isWaitingForIDE'[f] # isWaitingForIDE[f] => m[f] = "interp"
          /\ isIDEReady'[f] # isIDEReady[f] => m[f] = "recv"]_vars

\* C17: a watcher whose call has delivered the done signal eventually
\* terminates, whether the wait ended by readiness or by cancellation.
C17_WatcherTerminates ==
    \A k \in Calls :
        (watcher[k] \in {"waitctx", "ticking"} /\ waitDone[k] = 1)
            ~> (watcher[k] = "exited")

\* C18: a WaiteIDE entered with isIDEReady or isWaitingForIDE set goes
\* straight to the send of the done signal: it takes no lock, joins no wait
\* and changes neither flag; the channel has room for the signal, and the send
\* puts exactly one signal in it and changes neither flag, whether or not a
\* watcher reads the channel.
C18_WaitSkipped ==
    [][\A f \in Facades :
          /\ (/\ pc[f] = "w_check"
              /\ isIDEReady[f] \/ isWaitingForIDE[f]
              /\ pc'[f] # "w_check")
             => /\ pc'[f] = "w_done"
                /\ waitDone[cur[f]] = 0
                /\ UNCHANGED <<isIDEReady, isWaitingForIDE, m, waiting, waitDone>>
          /\ (pc[f] = "w_done" /\ pc'[f] # "w_done")
             => /\ pc'[f] = "ret"
                /\ waitDone[cur[f]] = 0
                /\ waitDone'[cur[f]] = 1
                /\ UNCHANGED <<isIDEReady, isWaitingForIDE, m, waiting>>]_vars

\* a Connect on a handle with no context has sent its done signal, on a facade
\* that had a transport before and has isIDEReady set: no watcher reads
C18_Witness ==
    \E f \in Facades :
        /\ pc[f] = "ret" /\ acq[f]
        /\ leaked[f]
        /\ ctxOf[f] = NilCtx
        /\ isIDEReady[f] /\ ~isWaitingForIDE[f]
        /\ watcher[cur[f]] = "none"
        /\ waitDone[cur[f]] = 1

\* C19: the dispatch of a message whose id is not one of the six inbound ids
\* changes nothing of the session, the engine and the registry and sends
\* nothing, the receive loop is free for the next message, and an InitReq
\* dispatched at any place of the script has started the engine.
C19_UnknownDropped ==
    /\ [][\A f \in Facades :
             (/\ nread'[f] = nread[f] + 1
              /\ inbox[f][nread[f] + 1].cmd \notin InboundIds)
             => /\ UNCHANGED <<lifeVars, engVars, outVars, pc>>
                /\ rpc'[f] = "idle"]_vars
    /\ [](\A f \in Facades : \A i \in 1..nread[f] :
             inbox[f][i].cmd = MsgIdInitReq => started[f])

C19_Witness ==
    /\ nread[Dbg] = MaxMsgs
    /\ inbox[Dbg][1].cmd \notin InboundIds
    /\ inbox[Dbg][2].cmd = MsgIdInitReq
    /\ started[Dbg]
    /\ inbox[Dbg][MaxMsgs].cmd = MsgIdAddBreakPointReq
    /\ rpc[Dbg] = "idle"
    /\ DOMAIN registry[Dbg] # {}

\* C20: the handle of a facade whose only transport open failed is not in
\* the facade's attached set f.states.
C20_RegisteredOnlyAfterOpen ==
    \A f \in Facades : (ft[f] = "new" /\ ~leaked[f]) => f \notin states[f]
====
